---- MODULE Spec2Model ----
(***************************************************************************)
(* Model of mmcv/ops/knn.py: the autograd Function KNN (forward, backward) *)
(* and the process state it reads and writes (torch's current CUDA         *)
(* device).  Tensors are records [data, dev, contig]; data is a three-     *)
(* dimensional array held as sequences of sequences of sequences           *)
(* (positions 1-based, index VALUES 0-based as in the source).             *)
(* The compiled extension ext_module.knn_forward is not part of            *)
(* knn.py; its two variants are modelled from the design document          *)
(* (sections 4.3 and 4.4).                                                 *)
(***************************************************************************)
EXTENDS Integers, Sequences, FiniteSets, TLC

VARIABLES deviceType, torchVersion, topkTies, curDevice,
          pc, args, entryDevice, res, grads

vars == <<deviceType, torchVersion, topkTies, curDevice,
          pc, args, entryDevice, res, grads>>

(* ------------------------------ bounds -------------------------------- *)

\* Largest number of points (candidates plus explicit centers, over all
\* batches) held by the tensors of one call.
MaxElems == 5

\* Coordinates the enumerated points are drawn from (3 per point).
PointPool == { <<0, 0, 0>>, <<1, 2, 0>> }

\* A point with a fourth coordinate, for tensors whose last dimension is 4.
WidePool == { <<0, 0, 0, 1>> }

\* Values of k the callers pass.
KValues == {0, 1, 2, 99, 100}

\* Device indices of the accelerator.
Devices == {0, 1}

\* What the build fixes: the accelerator family, the framework
\* ('parrots' or a torch release) and how torch.topk orders equal values
\* (torch documents no order among ties; a build has one).
Builds ==
    { [dev |-> "cuda", ver |-> "torch",   ties |-> "low"],
      [dev |-> "cuda", ver |-> "parrots", ties |-> "low"],
      [dev |-> "npu",  ver |-> "torch",   ties |-> "low"],
      [dev |-> "npu",  ver |-> "torch",   ties |-> "high"] }

\* What a kernel that is handed tensors of the wrong shape may do: it reads
\* outside the buffers it was given.  It either faults or leaves the
\* zero-initialised output buffers as they are.  On tensors of the right
\* shape its result is defined.
KernelUB == {"fault", "untouched"}

(* ------------------------------ tensors ------------------------------- *)

None == <<>>

NoTensor == [data |-> None, dev |-> 0, contig |-> TRUE]

IsNone(t) == t.data = None

\* tensor.transpose(2, 1): dimensions 1 and 2 (0-based) exchanged.
Transpose21(d) ==
    [b \in 1..Len(d) |->
        [i \in 1..Len(d[b][1]) |->
            [j \in 1..Len(d[b]) |-> d[b][j][i]]]]

\* new_zeros(shape)
Zeros(n1, n2, n3) == [b \in 1..n1 |-> [i \in 1..n2 |-> [j \in 1..n3 |-> 0]]]

\* tensor.transpose(2, 1): a view of the same values, not contiguous.
TransposeT(t) == [data |-> Transpose21(t.data), dev |-> t.dev, contig |-> FALSE]

\* tensor.contiguous(): a fresh contiguous copy with the same values.
ContiguousT(t) == [t EXCEPT !.contig = TRUE]

(* --------------------- the extension's kernels ------------------------ *)

\* The padding distance of the heap kernel.  It stands for 1e10, which
\* TLC's 32-bit integers cannot hold; every distance between enumerated
\* points is far below it.
SentinelDist == 1000000000

\* Squared Euclidean distance over the 3 coordinate axes.
Dist2(q, p) ==
    (q[1] - p[1]) * (q[1] - p[1]) + (q[2] - p[2]) * (q[2] - p[2])
        + (q[3] - p[3]) * (q[3] - p[3])

\* dist[b][m][n] for every batch, query and candidate.
DistMatrix(x, c) ==
    [b \in 1..Len(c) |->
        [m \in 1..Len(c[b]) |->
            [n \in 1..Len(x[b]) |-> Dist2(c[b][m], x[b][n])]]]

\* The bounded max-heap of one query, held in ascending order of distance:
\* its maximum is its last entry.  An entry goes behind the entries at the
\* same distance, which were scanned before it.
InsertSorted(heap, e) ==
    LET pos == Cardinality({j \in 1..Len(heap) : heap[j].d <= e.d})
    IN  SubSeq(heap, 1, pos) \o <<e>> \o SubSeq(heap, pos + 1, Len(heap))

\* Insert while the heap is not full; once full, replace the maximum only
\* by a strictly smaller distance.
HeapOffer(heap, e, k) ==
    IF Len(heap) < k
    THEN InsertSorted(heap, e)
    ELSE IF e.d < heap[Len(heap)].d
         THEN InsertSorted(SubSeq(heap, 1, Len(heap) - 1), e)
         ELSE heap

RECURSIVE HeapScan(_, _, _, _)
\* Scan the candidates n = 0..N-1 of one query (row[n + 1] is candidate n).
HeapScan(row, n, k, heap) ==
    IF n > Len(row)
    THEN heap
    ELSE HeapScan(row, n + 1, k, HeapOffer(heap, [d |-> row[n], i |-> n - 1], k))

\* Drain in ascending order; slots beyond the real neighbours hold the
\* sentinel (index 0, distance SentinelDist).
HeapDrain(heap, k) ==
    heap \o [j \in 1..(k - Len(heap)) |-> [d |-> SentinelDist, i |-> 0]]

\* The k entries of one query, nearest first.
KnnQuery(row, k) == HeapDrain(HeapScan(row, 1, k, <<>>), k)

\* knn_forward of the heap kernel: fills idx and dist2, both (B, npoint, k).
\* (Every level is concatenated with <<>> so that TLC holds it as a tuple
\* and evaluates each query once.)
KnnForwardHeap(x, c, k) ==
    LET dist == DistMatrix(x, c)
        best == [b \in 1..Len(c) |->
                    [m \in 1..Len(c[b]) |-> KnnQuery(dist[b][m], k)] \o <<>>]
                \o <<>>
    IN  [idx   |-> [b \in 1..Len(c) |-> [m \in 1..Len(c[b]) |->
                        [j \in 1..k |-> best[b][m][j].i] \o <<>>] \o <<>>] \o <<>>,
         dist2 |-> [b \in 1..Len(c) |-> [m \in 1..Len(c[b]) |->
                        [j \in 1..k |-> best[b][m][j].d] \o <<>>] \o <<>>] \o <<>>]

\* knn_forward of the NPU kernel: fills dist, (B, npoint, N).
KnnForwardNpu(x, c) == DistMatrix(x, c)

(* ----------------------------- torch.topk ----------------------------- *)

\* Candidate i comes before candidate j in the ascending order of row;
\* equal values are ordered as the build orders them.
TopkBefore(row, i, j, ties) ==
    \/ row[i] < row[j]
    \/ row[i] = row[j] /\ (IF ties = "low" THEN i < j ELSE i > j)

\* The positions of row in ascending order.
TopkOrder(row, ties) ==
    [r \in 1..Len(row) |->
        CHOOSE i \in 1..Len(row) :
            Cardinality({j \in 1..Len(row) : TopkBefore(row, j, i, ties)}) = r - 1]

\* Topk with largest=True: the k largest values, descending.
TopkLargest(dist, k, ties) ==
    LET N   == Len(dist[1][1])
        ord == [b \in 1..Len(dist) |-> [m \in 1..Len(dist[b]) |->
                    TopkOrder(dist[b][m], ties) \o <<>>] \o <<>>] \o <<>>
    IN  [values  |-> [b \in 1..Len(dist) |-> [m \in 1..Len(dist[b]) |->
                        [j \in 1..k |-> dist[b][m][ord[b][m][N + 1 - j]]] \o <<>>]
                            \o <<>>] \o <<>>,
         indices |-> [b \in 1..Len(dist) |-> [m \in 1..Len(dist[b]) |->
                        [j \in 1..k |-> ord[b][m][N + 1 - j] - 1] \o <<>>]
                            \o <<>>] \o <<>>]

\* torch.topk(dist, k, dim=2, largest=False, sorted=True) on (B, npoint, N),
\* for k <= N: the k smallest values of every row, ascending, and their
\* (0-based) indices.
Topk(dist, k, ties) ==
    LET ord == [b \in 1..Len(dist) |-> [m \in 1..Len(dist[b]) |->
                    TopkOrder(dist[b][m], ties) \o <<>>] \o <<>>] \o <<>>
    IN  [values  |-> [b \in 1..Len(dist) |-> [m \in 1..Len(dist[b]) |->
                        [j \in 1..k |-> dist[b][m][ord[b][m][j]]] \o <<>>]
                            \o <<>>] \o <<>>,
         indices |-> [b \in 1..Len(dist) |-> [m \in 1..Len(dist[b]) |->
                        [j \in 1..k |-> ord[b][m][j] - 1] \o <<>>]
                            \o <<>>] \o <<>>]

\* torch.topk raises RuntimeError ("selected index k out of range") when
\* the dimension holds fewer than k elements.
TopkInRange(n, k) == k <= n

(* ---------------------------- KNN.forward ----------------------------- *)

\* The k check with its upper end included.
ValidKInclusive(k) == (k > 0) /\ (k <= 100)

\* assert (k > 0) & (k < 100)
ValidK(k) == (k > 0) /\ (k < 100)

\* if center_xyz is None: center_xyz = xyz
DefaultCenter(a) == IF IsNone(a.center) THEN a.xyz ELSE a.center

\* The layout copy without the transpose.
NormalizeNoTranspose(t) == ContiguousT(t)

\* t.transpose(2, 1).contiguous(), bound to a local name: the caller's
\* tensor is not touched.
Normalize(t) == ContiguousT(TransposeT(t))

\* assert xyz.is_contiguous(); assert center_xyz.is_contiguous()
ContiguousOk(x, c) == x.contig /\ c.contig

\* The device check left out.
SameDeviceSkipped(x, c) == TRUE

\* assert center_xyz.get_device() == xyz.get_device()
SameDevice(x, c) == c.dev = x.dev

\* if xyz.device.type != 'npu' and torch.cuda.current_device() differs from
\* the tensors' device: torch.cuda.set_device(center_xyz_device).
\* The current device the call leaves behind.
SelectDevice(cur, dev, devType) ==
    IF devType # "npu" /\ cur # dev THEN dev ELSE cur

\* idx.where(dist2 >= 1e10, zeros_idx): Tensor.where returns a new tensor,
\* which the statement drops; idx is what it was.
WhereDiscarded(idx, dist2) == idx

\* The index array handed back as the kernel wrote it.
AssembleAsWritten(idx) == idx

\* idx.transpose(2, 1).contiguous(): (B, npoint, k) to (B, k, npoint)
Assemble(idx) == Transpose21(idx)

\* if torch.__version__ != 'parrots': ctx.mark_non_differentiable(idx)
MarkNonDifferentiable(ver) == ver # "parrots"

\* The tensors are what the kernel is told they are: xyz (b, n, 3) and
\* center_xyz (b, m, 3).
KernelShapesOk(x, c, b, n, m) ==
    /\ Len(x) = b /\ Len(c) = b
    /\ Len(x[1]) = n /\ Len(c[1]) = m
    /\ Len(x[1][1]) = 3 /\ Len(c[1][1]) = 3

\* A call that raises: nothing is returned.
Raise(status, a, cur, effects) ==
    [status |-> status, out |-> None, kidx |-> None, kdist |-> None,
     curDevice |-> cur, effects |-> effects, marked |-> FALSE,
     xyz |-> a.xyz, center |-> a.center]

\* Lines 65-73: the NPU branch.
NpuPath(a, x, c, cur, effects, bld, ub) ==
    LET B      == Len(c.data)
        npoint == Len(c.data[1])
        N      == Len(x.data[1])
        ok     == KernelShapesOk(x.data, c.data, B, N, npoint)
        e3     == effects \o <<"alloc", "kernel">>
    IN  IF ~ok /\ ub = "fault"
        THEN Raise("KernelFault", a, cur, e3)
        ELSE LET dist == IF ok THEN KnnForwardNpu(x.data, c.data)
                         ELSE Zeros(B, npoint, N)
             IN  IF ~TopkInRange(N, a.k)
                 THEN Raise("RuntimeError_topk", a, cur, e3 \o <<"topk">>)
                 ELSE LET tk  == Topk(dist, a.k, bld.ties)
                          idx == WhereDiscarded(tk.indices, tk.values)
                      IN  [status |-> "returned", out |-> Assemble(idx),
                           kidx |-> tk.indices, kdist |-> tk.values,
                           curDevice |-> cur,
                           effects |-> e3 \o <<"topk", "transpose">>,
                           marked |-> FALSE,
                           xyz |-> a.xyz, center |-> a.center]

\* Lines 75-84: the heap-kernel branch.
HeapPath(a, x, c, cur, effects, bld, ub) ==
    LET B      == Len(c.data)
        npoint == Len(c.data[1])
        N      == Len(x.data[1])
        ok     == KernelShapesOk(x.data, c.data, B, N, npoint)
        e3     == effects \o <<"alloc", "kernel">>
    IN  IF ~ok /\ ub = "fault"
        THEN Raise("KernelFault", a, cur, e3)
        ELSE LET kr == IF ok THEN KnnForwardHeap(x.data, c.data, a.k)
                       ELSE [idx   |-> Zeros(B, npoint, a.k),
                             dist2 |-> Zeros(B, npoint, a.k)]
             IN  [status |-> "returned", out |-> Assemble(kr.idx),
                  kidx |-> kr.idx, kdist |-> kr.dist2,
                  curDevice |-> cur,
                  effects |-> e3 \o <<"transpose">>,
                  marked |-> MarkNonDifferentiable(bld.ver),
                  xyz |-> a.xyz, center |-> a.center]

\* KNN.forward(ctx, k, xyz, center_xyz, transposed) in a process whose
\* current device is cur, on build bld; ub is what the kernel does if it
\* is handed tensors of the wrong shape.  The result names what the call
\* returned or raised, the kernel's own index and distance lists, the
\* current device it leaves, the effects it had in their order, whether the
\* output was marked non-differentiable, and the caller's tensors after it.
forward(a, cur, bld, ub) ==
    IF ~ValidK(a.k)
    THEN Raise("AssertionError_k", a, cur, <<>>)
    ELSE
      LET c0 == DefaultCenter(a)
          x1 == IF a.transposed THEN Normalize(a.xyz) ELSE a.xyz
          c1 == IF a.transposed THEN Normalize(c0) ELSE c0
          e1 == IF a.transposed THEN <<"copy">> ELSE <<>>
      IN  IF ~ContiguousOk(x1, c1)
          THEN Raise("AssertionError_contiguous", a, cur, e1)
          ELSE IF ~SameDevice(x1, c1)
          THEN Raise("AssertionError_device", a, cur, e1)
          ELSE
            LET cur2 == SelectDevice(cur, c1.dev, bld.dev)
                e2   == IF cur2 # cur THEN e1 \o <<"set_device">> ELSE e1
            IN  IF bld.dev = "npu"
                THEN NpuPath(a, x1, c1, cur2, e2, bld, ub)
                ELSE HeapPath(a, x1, c1, cur2, e2, bld, ub)

\* The parameters of forward after ctx.
ForwardInputs == <<"k", "xyz", "center_xyz", "transposed">>

\* KNN.backward(ctx, a=None): return None, None, None
backward == <<None, None, None>>

(* ------------------------------ callers ------------------------------- *)

\* The storage a caller holds for logical (B, N, 3) data when it passes
\* transposed = True: (B, 3, N).
CoordMajor(d) ==
    [b \in 1..Len(d) |->
        [i \in 1..Len(d[b][1]) |->
            [j \in 1..Len(d[b]) |-> d[b][j][i]]]]

\* Logical arrays of B batches of N points drawn from pool.
TensorData(B, N, pool) == [1..B -> [1..N -> pool]]

Sizes == 1..MaxElems

\* Self-queries (centers omitted) and queries with explicit centers, the
\* batch sizes agreeing and every point of 3 coordinates.
SelfData ==
    UNION { { [xyz |-> x, center |-> None] :
                x \in TensorData(s[1], s[2], PointPool) } :
            s \in {s \in Sizes \X Sizes : s[1] * s[2] <= MaxElems} }

PairData ==
    UNION { { [xyz |-> x, center |-> c] :
                x \in TensorData(s[1], s[2], PointPool),
                c \in TensorData(s[1], s[3], PointPool) } :
            s \in {s \in Sizes \X Sizes \X Sizes :
                      s[1] * (s[2] + s[3]) <= MaxElems} }

\* Tensors of the wrong shape: the batch sizes differ, or the last
\* dimension of either tensor is 4.
OnePoint == { <<0, 0, 0>> }

BatchMismatchData ==
    UNION { { [xyz |-> x, center |-> c] :
                x \in TensorData(s[1], s[2], OnePoint),
                c \in TensorData(s[3], s[4], OnePoint) } :
            s \in {s \in Sizes \X Sizes \X Sizes \X Sizes :
                      /\ s[1] # s[3]
                      /\ s[1] * s[2] + s[3] * s[4] <= MaxElems} }

WideData ==
    UNION { { [xyz |-> x, center |-> None] :
                x \in TensorData(s[1], s[2], WidePool) } :
            s \in {s \in Sizes \X Sizes : s[1] * s[2] <= MaxElems} }
    \cup
    UNION { { [xyz |-> x, center |-> c] :
                x \in TensorData(s[1], s[2], OnePoint),
                c \in TensorData(s[1], s[3], WidePool) } :
            s \in {s \in Sizes \X Sizes \X Sizes :
                      s[1] * (s[2] + s[3]) <= MaxElems} }

Data == SelfData \cup PairData \cup BatchMismatchData \cup WideData

\* The calls with one point and at most one center: the ones enumerated
\* with tensors that are not contiguous.
SmallData ==
    {d \in SelfData \cup PairData : Len(d.xyz) = 1 /\ Len(d.xyz[1]) = 1}

\* The tensor a caller passes for logical array d.
Tensor(d, transposed, dev, contig) ==
    IF d = None THEN NoTensor
    ELSE [data |-> IF transposed THEN CoordMajor(d) ELSE d,
          dev |-> dev, contig |-> contig]

MkArgs(k, d, transposed, dx, dc, cx, cc) ==
    [k |-> k,
     xyz |-> Tensor(d.xyz, transposed, dx, cx),
     center |-> Tensor(d.center, transposed, dc, cc),
     transposed |-> transposed]

\* Contiguous tensors on any devices.
MainInputs ==
    { MkArgs(q[1], q[2], q[3], q[4], q[5], TRUE, TRUE) :
        q \in {q \in KValues \X Data \X BOOLEAN \X Devices \X Devices :
                  q[2].center = None => q[5] = 0} }

\* The same calls with a tensor that is not contiguous.
NonContiguousInputs ==
    { MkArgs(q[1], q[2], q[3], q[4], q[4], q[5], q[6]) :
        q \in {q \in KValues \X SmallData \X BOOLEAN \X Devices
                       \X BOOLEAN \X BOOLEAN :
                  /\ ~(q[5] /\ q[6])
                  /\ q[2].center = None => q[6]} }

Inputs == MainInputs \cup NonContiguousInputs

\* The logical shape of the arrays a caller passes: batches, points and
\* coordinates per point.
Batches(t) == Len(t.data)

Points(t, transposed) ==
    IF transposed THEN Len(t.data[1][1]) ELSE Len(t.data[1])

Coords(t, transposed) ==
    IF transposed THEN Len(t.data[1]) ELSE Len(t.data[1][1])

\* The arrays of a are batches of 3-coordinate points, as many batches of
\* centers as of candidates.
WellShaped(a) ==
    /\ Coords(a.xyz, a.transposed) = 3
    /\ IsNone(a.center) \/
          /\ Coords(a.center, a.transposed) = 3
          /\ Batches(a.center) = Batches(a.xyz)

\* What the kernel may do with the tensors of call a.
KernelOutcomes(a) == IF WellShaped(a) THEN {"defined"} ELSE KernelUB

(* --------------------------- the state machine ------------------------ *)

NoArgs == [k |-> 0, xyz |-> NoTensor, center |-> NoTensor, transposed |-> FALSE]

NoRes == [status |-> "none", out |-> None, kidx |-> None, kdist |-> None, curDevice |-> 0,
          effects |-> <<>>, marked |-> FALSE,
          xyz |-> NoTensor, center |-> NoTensor]

build == [dev |-> deviceType, ver |-> torchVersion, ties |-> topkTies]

\* A process starts with current device 0.
Init ==
    /\ \E b \in Builds :
          /\ deviceType = b.dev
          /\ torchVersion = b.ver
          /\ topkTies = b.ties
    /\ curDevice = 0
    /\ pc = "idle"
    /\ args = NoArgs
    /\ entryDevice = 0
    /\ res = NoRes
    /\ grads = None

\* knn(k, xyz, center_xyz, transposed) = KNN.apply(...): forward runs to
\* its end.
Call(a, ub) ==
    /\ pc = "idle"
    /\ res' = forward(a, curDevice, build, ub)
    /\ curDevice' = res'.curDevice
    /\ pc' = "done"
    /\ args' = a
    /\ entryDevice' = curDevice
    /\ UNCHANGED <<deviceType, torchVersion, topkTies, grads>>

\* autograd runs the node's backward for an output that was returned.
Backward ==
    /\ pc = "done"
    /\ res.status = "returned"
    /\ grads' = backward
    /\ pc' = "backward"
    /\ args' = NoArgs
    /\ res' = NoRes
    /\ UNCHANGED <<deviceType, torchVersion, topkTies, curDevice, entryDevice>>

\* The caller drops what the call gave it; the process goes on.
Release ==
    /\ pc \in {"done", "backward"}
    /\ pc' = "idle"
    /\ args' = NoArgs
    /\ res' = NoRes
    /\ grads' = None
    /\ entryDevice' = curDevice
    /\ UNCHANGED <<deviceType, torchVersion, topkTies, curDevice>>

Next ==
    \/ pc = "idle" /\ \E a \in Inputs : \E ub \in KernelOutcomes(a) : Call(a, ub)
    \/ Backward
    \/ Release

Spec == Init /\ [][Next]_vars

(* ------------------------ reading a finished call --------------------- *)

Done == pc = "done"

Returned == pc = "done" /\ res.status = "returned"

Has(effects, e) == \E i \in 1..Len(effects) : effects[i] = e

\* The centers a call queries: its own points when none are given.
Centers(a) == IF IsNone(a.center) THEN a.xyz ELSE a.center

NumB(a) == Batches(Centers(a))

NumN(a) == Points(a.xyz, a.transposed)

NumM(a) == Points(Centers(a), a.transposed)

\* Coordinate c of point n of batch b, read from the caller's storage.
Coord(t, transposed, b, n, c) ==
    IF transposed THEN t.data[b][c][n] ELSE t.data[b][n][c]

\* Squared distance of query m (1-based) to candidate n (0-based) in batch b.
SqDist(a, b, m, n) ==
    LET df(c) == Coord(Centers(a), a.transposed, b, m, c)
                    - Coord(a.xyz, a.transposed, b, n + 1, c)
    IN  df(1) * df(1) + df(2) * df(2) + df(3) * df(3)

\* out has the shape (B, k, M) of call a.
OutShape(a, out) ==
    /\ Len(out) = NumB(a)
    /\ \A b \in 1..Len(out) :
          /\ Len(out[b]) = a.k
          /\ \A j \in 1..Len(out[b]) : Len(out[b][j]) = NumM(a)

\* The k-range, contiguity and device checks of a call pass.
RangeOk(a) == a.k \in 1..99

ContigPass(a) ==
    a.transposed \/ (a.xyz.contig /\ (IsNone(a.center) \/ a.center.contig))

DevMismatch(a) == ~IsNone(a.center) /\ a.center.dev # a.xyz.dev

(* -------------------------------- C1 ---------------------------------- *)

\* C1: for every batch b and query m with N >= k, the k indices returned
\* for (b, m) are k distinct candidates, no candidate left out is strictly
\* closer to the query than a returned one, and the distances of the
\* returned indices do not decrease along the rank.
InvC1 ==
    (Returned /\ WellShaped(args) /\ NumN(args) >= args.k) =>
        /\ OutShape(args, res.out)
        /\ \A b \in 1..NumB(args), m \in 1..NumM(args) :
              LET at(j) == res.out[b][j][m]
                  got   == {at(j) : j \in 1..args.k}
              IN  /\ got \subseteq 0..(NumN(args) - 1)
                  /\ Cardinality(got) = args.k
                  /\ \A j \in 1..(args.k - 1) :
                        SqDist(args, b, m, at(j)) <= SqDist(args, b, m, at(j + 1))
                  /\ \A n \in (0..(NumN(args) - 1)) \ got : \A j \in 1..args.k :
                        SqDist(args, b, m, n) >= SqDist(args, b, m, at(j))

\* A returned NPU call with 2 of 3 or more candidates chosen, the one left
\* out strictly farther than both.
WitC1 ==
    /\ Returned /\ WellShaped(args) /\ deviceType = "npu"
    /\ args.k = 2 /\ NumN(args) >= 3
    /\ \E n \in 0..(NumN(args) - 1) :
          /\ \A j \in 1..2 : res.out[1][j][1] # n
          /\ SqDist(args, 1, 1, n) > SqDist(args, 1, 1, res.out[1][2][1])

(* -------------------------------- C2 ---------------------------------- *)

\* C2: ties are broken by the lower candidate index: of two candidates
\* i < j at equal distance from the query, whenever j is among the returned
\* neighbours, i is too, at an earlier rank.
ClaimC2 ==
    (Returned /\ WellShaped(args)) =>
        \A b \in 1..NumB(args), m \in 1..NumM(args) :
            LET real == IF args.k <= NumN(args) THEN args.k ELSE NumN(args)
            IN  \A r \in 1..real : \A i \in 0..(NumN(args) - 1) :
                    (/\ i < res.out[b][r][m]
                     /\ SqDist(args, b, m, i) = SqDist(args, b, m, res.out[b][r][m]))
                    => \E r0 \in 1..(r - 1) : res.out[b][r0][m] = i

(* -------------------------------- C3 ---------------------------------- *)

\* C3: every call that passes validation returns indices in [0, N); when
\* N < k, ranks 0..N-1 hold the N real candidates in ascending distance and
\* every further rank holds the sentinel index 0 with a distance of at
\* least the sentinel distance; sentinel entries occur only when N < k; on
\* the heap-kernel path and on the NPU path alike.
ClaimC3 ==
    (Done /\ RangeOk(args) /\ ContigPass(args) /\ ~DevMismatch(args)
          /\ WellShaped(args)) =>
        /\ res.status = "returned"
        /\ OutShape(args, res.out)
        /\ \A b \in 1..NumB(args), m \in 1..NumM(args) :
              LET N     == NumN(args)
                  at(j) == res.out[b][j][m]
              IN  /\ \A j \in 1..args.k : at(j) \in 0..(N - 1)
                  /\ N < args.k =>
                        /\ {at(j) : j \in 1..N} = 0..(N - 1)
                        /\ \A j \in 1..(N - 1) :
                              SqDist(args, b, m, at(j)) <= SqDist(args, b, m, at(j + 1))
                        /\ \A j \in (N + 1)..args.k :
                              at(j) = 0 /\ res.kdist[b][m][j] >= SentinelDist
                  /\ N >= args.k =>
                        \A j \in 1..args.k : res.kdist[b][m][j] < SentinelDist

(* -------------------------------- C4 ---------------------------------- *)

\* C4: knn accepts k exactly when 0 < k < 100.  A call with k outside the
\* range is rejected by the k check before any layout copy, device change,
\* allocation or kernel call and returns nothing; a call with k inside it
\* is not rejected by the k check, reaches the kernel when its tensors
\* pass the other checks, and with k = 1 returns for each query exactly one
\* index, that of a nearest candidate.
InvC4 ==
    Done =>
        /\ ~RangeOk(args) =>
              /\ res.status = "AssertionError_k"
              /\ res.effects = <<>>
              /\ res.out = None
              /\ curDevice = entryDevice
        /\ RangeOk(args) =>
              /\ res.status # "AssertionError_k"
              /\ (ContigPass(args) /\ ~DevMismatch(args)) =>
                    Has(res.effects, "kernel")
        /\ (res.status = "returned" /\ args.k = 1 /\ WellShaped(args)) =>
              /\ OutShape(args, res.out)
              /\ \A b \in 1..NumB(args), m \in 1..NumM(args) :
                    \A n \in 0..(NumN(args) - 1) :
                        SqDist(args, b, m, res.out[b][1][m]) <= SqDist(args, b, m, n)

\* A call with k = 100 on transposed tensors that live on another device
\* than the current one, rejected.
WitC4 ==
    /\ Done /\ args.k = 100 /\ res.status = "AssertionError_k"
    /\ args.transposed /\ args.xyz.dev # entryDevice /\ deviceType = "cuda"

(* -------------------------------- C5 ---------------------------------- *)

\* C5: a call whose points and centers differ in batch size, or whose
\* coordinate dimension is not 3, is rejected before the distance kernel is
\* invoked and never returns an index array.
ClaimC5 ==
    (Done /\ ~WellShaped(args)) =>
        /\ res.status # "returned"
        /\ ~Has(res.effects, "kernel")

(* -------------------------------- C6 ---------------------------------- *)

\* C6: when points and centers are on different devices the call fails
\* before the kernel is dispatched: with the device-mismatch error when its
\* k and contiguity checks pass, with no output allocated or returned, the
\* inputs where and what they were, and the current device as before.
InvC6 ==
    (Done /\ DevMismatch(args)) =>
        /\ res.status \in {"AssertionError_k", "AssertionError_contiguous",
                           "AssertionError_device"}
        /\ (RangeOk(args) /\ ContigPass(args)) =>
              res.status = "AssertionError_device"
        /\ res.out = None
        /\ ~Has(res.effects, "alloc")
        /\ ~Has(res.effects, "kernel")
        /\ ~Has(res.effects, "set_device")
        /\ curDevice = entryDevice
        /\ res.xyz = args.xyz /\ res.center = args.center

\* A call with valid k whose centers are on the current device and whose
\* points are on the other one, rejected for the mismatch.
WitC6 ==
    /\ Done /\ DevMismatch(args) /\ RangeOk(args)
    /\ res.status = "AssertionError_device"
    /\ deviceType = "cuda" /\ args.center.dev # entryDevice

(* -------------------------------- C7 ---------------------------------- *)

\* C7: knn is stateless across calls: the current device after a call is
\* the one before it, and the call's output is the output of the same call
\* made with any other current device.  (Stated for the calls whose tensors
\* have the shape the kernel is defined on.)
ClaimC7 ==
    (Done /\ WellShaped(args)) =>
        /\ curDevice = entryDevice
        /\ \A d \in Devices :
              forward(args, d, build, "defined").out = res.out

(* -------------------------------- C8 ---------------------------------- *)

\* C8: the returned array has shape (B, k, M) and out[b][j][m] is entry
\* [b][m][j] of the per-query lists the kernel (or topk) wrote.
InvC8 ==
    Returned =>
        /\ OutShape(args, res.out)
        /\ Len(res.kidx) = NumB(args)
        /\ \A b \in 1..NumB(args) :
              /\ Len(res.kidx[b]) = NumM(args)
              /\ \A m \in 1..NumM(args) :
                    /\ Len(res.kidx[b][m]) = args.k
                    /\ \A j \in 1..args.k : res.out[b][j][m] = res.kidx[b][m][j]

\* A returned call with 2 batches, 2 queries and k = 1 whose two queries of
\* the first batch have different nearest neighbours.
WitC8 ==
    /\ Returned /\ NumB(args) = 2 /\ NumM(args) = 2 /\ args.k = 1
    /\ res.out[1][1][1] # res.out[1][1][2]

(* -------------------------------- C9 ---------------------------------- *)

\* The call on the other storage of the same logical data: transposed
\* flipped, every tensor's last two dimensions exchanged.
Counterpart(a) ==
    [k |-> a.k,
     xyz |-> [a.xyz EXCEPT !.data = CoordMajor(@)],
     center |-> IF IsNone(a.center) THEN a.center
                ELSE [a.center EXCEPT !.data = CoordMajor(@)],
     transposed |-> ~a.transposed]

\* C9: on contiguous arrays of well-shaped logical data, knn with
\* transposed = False on the (B, N, 3) storage and knn with
\* transposed = True on the (B, 3, N) storage end alike and return the same
\* indices, centers given or omitted, and the caller's tensors are after
\* the call what they were before it.
InvC9 ==
    (Done /\ WellShaped(args) /\ args.xyz.contig /\ args.center.contig) =>
        LET other == forward(Counterpart(args), entryDevice, build, "defined")
        IN  /\ other.status = res.status
            /\ other.out = res.out
            /\ res.xyz = args.xyz
            /\ res.center = args.center

\* A returned call on transposed storage of 2 candidates that are not 3,
\* the nearer one of higher index.
WitC9 ==
    /\ Returned /\ WellShaped(args) /\ args.transposed
    /\ NumN(args) = 2 /\ args.k = 2
    /\ res.out[1][1][1] = 1

(* -------------------------------- C10 --------------------------------- *)

\* C10: every call that returns an index array has it marked
\* non-differentiable, on the heap-kernel path and on the NPU path, and
\* backward yields one absent gradient for each input of forward.  (Stated
\* for torch builds: parrots has no marking to ask for.)
ClaimC10 ==
    /\ (Returned /\ torchVersion # "parrots") => res.marked
    /\ pc = "backward" =>
          /\ Len(grads) = Len(ForwardInputs)
          /\ \A i \in 1..Len(grads) : grads[i] = None

====
